---- MODULE Spec2Model ----
(***************************************************************************)
(* Model of the script compiler of SFDX-Data-Move-Utility:                 *)
(*   Script.setupAsync, ScriptOrg.setupAsync and ScriptObject.setup of     *)
(*   src/src/modules/models/common_models/ISfdxCommand.ts                  *)
(*                                                                         *)
(* Query text is a sequence of tokens (the words of the SOQL text); the    *)
(* parsed query is a record.  A JavaScript value that may be a number (an  *)
(* enum member), a string or undefined is a record [type, name].           *)
(***************************************************************************)
EXTENDS Naturals, Sequences, FiniteSets

VARIABLES
    pc,              \* position of Script.setupAsync
    error,           \* the error setupAsync was rejected with ([kind, org])
    input,           \* the objects of the script file as deserialized
    objects,         \* Script.objects
    objectsMap,      \* Script.objectsMap
    sourceUsername,  \* argument of setupAsync
    targetUsername,  \* argument of setupAsync
    sourceOrg,       \* Script.sourceOrg
    targetOrg,       \* Script.targetOrg
    calls,           \* invocations of the external collaborators, in order
    sobj,            \* one ScriptObject on its own
    spc,             \* position of that ScriptObject's life cycle
    serr             \* the error its setup threw

vars == <<pc, error, input, objects, objectsMap, sourceUsername, targetUsername,
          sourceOrg, targetOrg, calls, sobj, spc, serr>>

scriptVars == <<pc, error, objects, sourceUsername, targetUsername,
                targetOrg, calls>>

\* ------------------------------------------------------------------ bounds
MaxObjects == 2
MaxFields == 2

\* ------------------------------------------------------- sequence helpers
Range(s) == {s[i] : i \in 1..Len(s)}

SeqsUpTo(S, n) == UNION {[1..k -> S] : k \in 0..n}

IndexOf(s, x) ==
    IF x \in Range(s) THEN CHOOSE i \in 1..Len(s) : s[i] = x /\ \A j \in 1..(i-1) : s[j] # x
    ELSE 0

\* ------------------------------------------------------------- OPERATION
\* A JavaScript value of the operation property.
Num(n) == [type |-> "number", name |-> n]
Str(s) == [type |-> "string", name |-> s]
Undefined == [type |-> "undefined", name |-> ""]

OPERATION == {"Insert", "Update", "Upsert", "Delete", "Readonly"}

\* OPERATION[text]: the member named by the text, undefined when there is none
OperationByName(text) == IF text \in OPERATION THEN Num(text) ELSE Undefined

\* value == OPERATION.member (loose equality with a numeric enum member; a
\* text that is no numeral converts to NaN and is never equal)
OpEq(value, member) == value.type = "number" /\ value.name = member

\* --------------------------------------------------------- soql-parser-js
Keywords == {"SELECT", "FROM", "WHERE", "ORDER", "BY", "AND", "OR", "(", ")"}

NoQuery == [parsed |-> FALSE, sObject |-> "", fields |-> <<>>, where |-> <<>>, orderBy |-> <<>>]

\* a thrown parse error
BadQuery == [ok |-> FALSE, query |-> NoQuery]

BadWhere == [ok |-> FALSE, conds |-> <<>>]

getComposedField(name) == name

\* the tokens of one condition; logic joins it to the conditions before it
CondTokens(c) ==
    (IF c.logic = "" THEN <<>> ELSE <<c.logic>>)
    \o <<c.field, c.operator, "(">> \o c.values \o <<")">>

RECURSIVE WhereTokens(_)
WhereTokens(where) ==
    IF where = <<>> THEN <<>>
    ELSE CondTokens(Head(where)) \o WhereTokens(Tail(where))

composeQuery(q) ==
    <<"SELECT">> \o q.fields \o <<"FROM", q.sObject>>
    \o (IF q.where = <<>> THEN <<>> ELSE <<"WHERE">> \o WhereTokens(q.where))
    \o (IF q.orderBy = <<>> THEN <<>> ELSE <<"ORDER", "BY">> \o q.orderBy)

\* the conditions of a WHERE clause, the first one read from toks[s + 1] on and
\* closed at toks[close]
RECURSIVE ParseCondition(_, _, _)
ParseWhere(toks, first) ==
    IF toks = <<>> THEN [ok |-> ~first, conds |-> <<>>]
    ELSE ParseCondition(toks, IF first THEN 0 ELSE 1, IndexOf(toks, ")"))

JoinConditions(c, rest) == [ok |-> rest.ok, conds |-> <<c>> \o rest.conds]

ParseCondition(toks, s, close) ==
    IF \/ Len(toks) < s + 5
       \/ close < s + 5
       \/ toks[s + 3] # "("
       \/ (s = 1 /\ toks[1] \notin {"AND", "OR"})
       \/ toks[s + 1] \in Keywords
       \/ toks[s + 2] \in Keywords
       \/ \E i \in (s + 4)..(close - 1) : toks[i] \in Keywords
    THEN BadWhere
    ELSE JoinConditions([field |-> toks[s + 1], operator |-> toks[s + 2],
                         values |-> SubSeq(toks, s + 4, close - 1),
                         logic |-> IF s = 0 THEN "" ELSE toks[1]],
                        ParseWhere(SubSeq(toks, close + 1, Len(toks)), FALSE))

ParseFilter(toks) ==
    IF toks = <<>> THEN [ok |-> TRUE, conds |-> <<>>]
    ELSE IF Head(toks) # "WHERE" THEN BadWhere
    ELSE ParseWhere(Tail(toks), TRUE)

ParseOrderBy(toks) ==
    IF toks = <<>> THEN [ok |-> TRUE, orderBy |-> <<>>]
    ELSE IF /\ Len(toks) = 4
            /\ toks[2] = "BY"
            /\ toks[3] \notin Keywords
            /\ toks[4] \in {"ASC", "DESC"}
    THEN [ok |-> TRUE, orderBy |-> SubSeq(toks, 3, 4)]
    ELSE [ok |-> FALSE, orderBy |-> <<>>]

ParsedQuery(fields, sObject, where, order) ==
    IF \/ \E i \in 1..Len(fields) : fields[i] \in Keywords
       \/ sObject \in Keywords
       \/ ~where.ok
       \/ ~order.ok
    THEN BadQuery
    ELSE [ok |-> TRUE,
          query |-> [parsed |-> TRUE, sObject |-> sObject, fields |-> fields,
                     where |-> where.conds, orderBy |-> order.orderBy]]

\* the clauses after FROM <sObject>; ORDER is at tail[order] (0: no ORDER BY)
ParseClauses(fields, sObject, tail, order) ==
    ParsedQuery(fields, sObject,
                ParseFilter(IF order = 0 THEN tail ELSE SubSeq(tail, 1, order - 1)),
                ParseOrderBy(IF order = 0 THEN <<>> ELSE SubSeq(tail, order, Len(tail))))

\* SELECT <fields> FROM <sObject> ..., FROM being text[from]
ParseSelect(text, from, tail) ==
    IF \/ Len(text) < 4
       \/ text[1] # "SELECT"
       \/ from < 3
       \/ from + 1 > Len(text)
    THEN BadQuery
    ELSE ParseClauses(SubSeq(text, 2, from - 1), text[from + 1], tail,
                      IndexOf(tail, "ORDER"))

TextFrom(text, i) == IF i = 0 THEN <<>> ELSE SubSeq(text, i + 2, Len(text))

ParseFrom(text, from) == ParseSelect(text, from, TextFrom(text, from))

\* parseQuery(text): [ok |-> FALSE] is a thrown parse error
parseQuery(text) == ParseFrom(text, IndexOf(text, "FROM"))

\* ------------------------------------------------------------ CommonUtils
\* distinctArray(array, "field"): the first occurrence of each field is kept
AppendNew(array, item) == IF item \in Range(array) THEN array ELSE Append(array, item)

RECURSIVE distinctArray(_)
distinctArray(array) ==
    IF array = <<>> THEN <<>>
    ELSE AppendNew(distinctArray(SubSeq(array, 1, Len(array) - 1)), array[Len(array)])

\* composeWhereClause(where, fieldName, values, operator, logicalOperator)
composeWhereClause(where, fieldName, values, operator, logicalOperator) ==
    Append(where, [field |-> fieldName, operator |-> operator, values |-> values,
                   logic |-> IF where = <<>> THEN "" ELSE logicalOperator])

\* ---------------------------------------------------------- SFieldDescribe
isFormula(describe) == describe.calculated

isReadonly(describe) ==
    ~(describe.creatable /\ ~isFormula(describe) /\ ~describe.autoNumber)

\* ----------------------------------------------------------- ScriptObject
\* new ScriptObject(): the field initializers
NewScriptObject ==
    [query |-> <<>>, deleteQuery |-> <<>>, operation |-> Num("Readonly"),
     externalId |-> "Name", deleteOldData |-> FALSE, excluded |-> FALSE,
     allRecords |-> TRUE, name |-> "",
     sourceFieldsMap |-> <<>>, targetFieldsMap |-> <<>>,
     initialExternalId |-> "", parsedQuery |-> NoQuery,
     parsedDeleteQuery |-> NoQuery, isExtraObject |-> FALSE]

\* an object entry of the script file
Entry(query, operation, excluded, deleteOldData) ==
    [NewScriptObject EXCEPT !.query = query, !.operation = operation,
                            !.excluded = excluded, !.deleteOldData = deleteOldData]

fieldsInQuery(o) == IF ~o.parsedQuery.parsed THEN <<>> ELSE o.parsedQuery.fields

fieldsToUpdate(o) ==
    IF \/ ~o.parsedQuery.parsed
       \/ Cardinality(DOMAIN o.sourceFieldsMap) = 0
       \/ OpEq(o.operation, "Readonly")
    THEN <<>>
    ELSE LET Keep(name) ==
                 \* describe = targetFieldsMap.get(name) && sourceFieldsMap.get(name)
                 /\ name \in DOMAIN o.targetFieldsMap
                 /\ name \in DOMAIN o.sourceFieldsMap
                 /\ ~isReadonly(o.sourceFieldsMap[name])
         IN  SelectSeq(o.parsedQuery.fields, Keep)

hasRecordTypeIdField(o) == "RecordTypeId" \in Range(fieldsInQuery(o))

\* "Fix operation value"
FixOperation(operation) ==
    IF operation.type = "string" THEN OperationByName(operation.name) ELSE operation

\* "Always set explicit externalId to 'Id' on Insert operation"
FixExternalId(operation, externalId) ==
    IF OpEq(operation, "Insert") THEN "Id" ELSE externalId

\* (mutant) the record Id field is added whether the query has it or not
AddRecordId_Always(fields) == Append(fields, getComposedField("Id"))

\* "Add record Id field to each query"
AddRecordId(fields) ==
    IF "Id" \in Range(fields) THEN fields ELSE Append(fields, getComposedField("Id"))

\* (mutant) a Delete operation keeps the fields of its query
NormalizeFields_KeepOnDelete(fields, operation) == AddRecordId(distinctArray(fields))

\* the field list of the parsed primary query, as setup rewrites it
NormalizeFields(fields, operation) ==
    AddRecordId(IF OpEq(operation, "Delete") THEN <<getComposedField("Id")>>
                ELSE distinctArray(fields))

Outcome(obj, err, registered) == [obj |-> obj, err |-> err, registered |-> registered]

\* the delete query: its field list, and the person account filter
DeleteQueryOf(query, excludePersonAccounts) ==
    [query EXCEPT !.fields = <<getComposedField("Id")>>,
                  !.where = IF excludePersonAccounts
                            THEN composeWhereClause(query.where, "IsPersonAccount",
                                                    <<"false">>, "=", "AND")
                            ELSE query.where]

WithDeleteQuery(o, q) ==
    [o EXCEPT !.parsedDeleteQuery = q, !.deleteQuery = composeQuery(q)]

\* "Parse delete query string", p being the parsed text
ParsedDeleteQuery(o, p, isPersonAccountEnabled) ==
    IF ~p.ok THEN Outcome(o, "MalformedDeleteQuery", TRUE)
    ELSE Outcome(WithDeleteQuery(o, DeleteQueryOf(p.query,
                                    isPersonAccountEnabled /\ o.name = "Contact")),
                 "", TRUE)

DeriveDeleteQuery(o, isPersonAccountEnabled) ==
    IF ~o.deleteOldData THEN Outcome(o, "", TRUE)
    ELSE ParsedDeleteQuery(o,
                           parseQuery(IF o.deleteQuery # <<>> THEN o.deleteQuery ELSE o.query),
                           isPersonAccountEnabled)

\* "Update object", q being the parsed and normalized primary query
WithParsedQuery(o, q) ==
    [o EXCEPT !.parsedQuery = q,
              !.deleteOldData = o.deleteOldData \/ OpEq(o.operation, "Delete"),
              !.query = composeQuery(q),
              !.name = q.sObject]

\* "Parse query string", p being the parsed text
ParsedPrimaryQuery(o, p, isPersonAccountEnabled) ==
    IF ~p.ok THEN Outcome(o, "MalformedQuery", FALSE)
    ELSE DeriveDeleteQuery(
             WithParsedQuery(o, [p.query EXCEPT
                                    !.fields = NormalizeFields(p.query.fields, o.operation)]),
             isPersonAccountEnabled)

\* "Initialize object", "Fix operation value", the externalId on Insert
WithOperation(this, operation) ==
    [this EXCEPT !.initialExternalId = this.externalId,
                 !.operation = operation,
                 !.externalId = FixExternalId(operation, this.externalId)]

\* ScriptObject.setup(script): the object afterwards, the error thrown (""
\* when none) and whether the object was put into script.objectsMap
setup(this, isPersonAccountEnabled) ==
    ParsedPrimaryQuery(WithOperation(this, FixOperation(this.operation)),
                       parseQuery(this.query), isPersonAccountEnabled)

\* Map.set(key, value)
MapSet(map, key, value) ==
    [k \in DOMAIN map \cup {key} |-> IF k = key THEN value ELSE map[k]]

\* -------------------------------------------------------------- ScriptOrg
\* new ScriptOrg(): the field initializers (media is not initialized)
NewScriptOrg ==
    [name |-> "", instanceUrl |-> "", accessToken |-> "", media |-> "undefined",
     isSource |-> FALSE, isPersonAccountEnabled |-> FALSE]

isFileMedia(org) == org.media = "File"

\* ------------------------------------------- one ScriptObject on its own
FieldNames == {"Id", "Name", "RecordTypeId"}

RawOperations ==
    {Num(m) : m \in OPERATION}
    \cup {Str("Delete"), Str("Insert"), Str("Readonly"), Str("Bogus")}

FilterTokens == <<"WHERE", "Name", "=", "(", "x", ")">>

\* the query property of an entry of the script file
RawQueries ==
    {<<"SELECT">> \o f \o <<"FROM", s>> \o w :
        f \in SeqsUpTo(FieldNames, MaxFields) \ {<<>>},
        s \in {"Account", "Contact"},
        w \in {<<>>, FilterTokens}}
    \cup {<<"SELECT", "FROM", "Account">>}

RawDeleteQueries ==
    {<<>>,
     <<"SELECT", "Name", "FROM", "Contact">> \o FilterTokens,
     <<"DELETE", "Contact">>}

RawEntries ==
    {[NewScriptObject EXCEPT !.query = q, !.deleteQuery = d, !.operation = op,
                             !.deleteOldData = del] :
        q \in RawQueries, d \in RawDeleteQueries, op \in RawOperations,
        del \in BOOLEAN}

NoError == [kind |-> "", org |-> ""]

IdleScript ==
    /\ pc = [step |-> "idle", org |-> ""]
    /\ error = NoError
    /\ objects = <<>>
    /\ sourceUsername = ""
    /\ targetUsername = ""
    /\ targetOrg = NewScriptOrg
    /\ calls = <<>>

InitObject ==
    /\ IdleScript
    /\ objectsMap = <<>>
    /\ \E pa \in BOOLEAN : sourceOrg = [NewScriptOrg EXCEPT !.isPersonAccountEnabled = pa]
    /\ sobj \in RawEntries
    /\ input = <<sobj>>
    /\ spc = "raw"
    /\ serr = ""

\* object.setup(script)
SetupObject ==
    /\ spc = "raw"
    /\ \E r \in {setup(sobj, sourceOrg.isPersonAccountEnabled)} :
           /\ sobj' = r.obj
           /\ serr' = r.err
           /\ spc' = IF r.err = "" THEN "done" ELSE "failed"
           /\ objectsMap' = IF r.registered THEN MapSet(objectsMap, r.obj.name, r.obj)
                            ELSE objectsMap
    /\ UNCHANGED <<scriptVars, input, sourceOrg>>

SpecObject == InitObject /\ [][SetupObject]_vars

\* ------------------------------------------- the describe maps of an object
DescribedFields == {"Id", "Name"}

\* SFieldDescribe: plain, not creatable, formula, auto number
Descriptors ==
    {[creatable |-> TRUE, calculated |-> FALSE, autoNumber |-> FALSE],
     [creatable |-> FALSE, calculated |-> FALSE, autoNumber |-> FALSE],
     [creatable |-> TRUE, calculated |-> TRUE, autoNumber |-> FALSE],
     [creatable |-> TRUE, calculated |-> FALSE, autoNumber |-> TRUE]}

\* what the description of an endpoint's object may hold
DescribeMaps == UNION {[D -> Descriptors] : D \in (SUBSET DescribedFields) \ {{}}}

FieldEntries ==
    {Entry(<<"SELECT">> \o f \o <<"FROM", "Account">>, op, FALSE, FALSE) :
        f \in SeqsUpTo({"Id", "Name", "Phone"}, MaxFields) \ {<<>>},
        op \in {Num("Insert"), Str("Update"), Num("Readonly")}}

InitFields ==
    /\ IdleScript
    /\ objectsMap = <<>>
    /\ sourceOrg = NewScriptOrg
    /\ sobj \in FieldEntries
    /\ input = <<sobj>>
    /\ spc = "raw"
    /\ serr = ""

\* the source endpoint's description of the object fills sourceFieldsMap
DescribeSource ==
    /\ spc = "done"
    /\ DOMAIN sobj.sourceFieldsMap = {}
    /\ \E m \in DescribeMaps : sobj' = [sobj EXCEPT !.sourceFieldsMap = m]
    /\ UNCHANGED <<scriptVars, input, objectsMap, sourceOrg, spc, serr>>

\* the target endpoint's description of the object fills targetFieldsMap
DescribeTarget ==
    /\ spc = "done"
    /\ DOMAIN sobj.targetFieldsMap = {}
    /\ \E m \in DescribeMaps : sobj' = [sobj EXCEPT !.targetFieldsMap = m]
    /\ UNCHANGED <<scriptVars, input, objectsMap, sourceOrg, spc, serr>>

NextFields ==
    \/ SetupObject
    \/ DescribeSource
    \/ DescribeTarget

SpecFields == InitFields /\ [][NextFields]_vars

\* ------------------------------------------------ force:org:display result
\* an unset property of OrgInfo
NoValue == "<undefined>"

NewOrgInfo ==
    [AccessToken |-> NoValue, ClientId |-> NoValue, ConnectedStatus |-> NoValue,
     Status |-> NoValue, OrgId |-> NoValue, InstanceUrl |-> NoValue,
     Username |-> NoValue]

\* OrgInfo.isConnected
orgInfoIsConnected(info) == info.ConnectedStatus = "Connected" \/ info.Status = "Active"

\* line.startsWith(prefix), a line being its words (line.split(' '))
startsWith(line, prefix) ==
    Len(line) >= Len(prefix) /\ SubSeq(line, 1, Len(prefix)) = prefix

\* line.split(' ').pop()
LastWord(line) == line[Len(line)]

ParseLine(output, line) ==
    [output EXCEPT
       !.AccessToken = IF startsWith(line, <<"Access", "Token">>) THEN LastWord(line) ELSE @,
       !.ClientId = IF startsWith(line, <<"Client", "Id">>) THEN LastWord(line) ELSE @,
       !.ConnectedStatus = IF startsWith(line, <<"Connected", "Status">>) THEN LastWord(line) ELSE @,
       !.Status = IF startsWith(line, <<"Status">>) THEN LastWord(line) ELSE @,
       !.OrgId = IF startsWith(line, <<"Id">>) THEN LastWord(line) ELSE @,
       !.InstanceUrl = IF startsWith(line, <<"Instance", "Url">>) THEN LastWord(line) ELSE @,
       !.Username = IF startsWith(line, <<"Username">>) THEN LastWord(line) ELSE @]

RECURSIVE ParseLines(_, _)
ParseLines(output, lines) ==
    IF lines = <<>> THEN output
    ELSE ParseLines(ParseLine(output, Head(lines)), Tail(lines))

\* _parseForceOrgDisplayResult(commandResult); the empty text gives null
parseForceOrgDisplayResult(commandResult) ==
    IF commandResult = <<>> THEN [isNull |-> TRUE, info |-> NewOrgInfo]
    ELSE [isNull |-> FALSE, info |-> ParseLines(NewOrgInfo, commandResult)]

\* !!accessToken
orgIsConnected(org) == org.accessToken \notin {"", NoValue}

\* what CommonUtils.execSfdx("force:org:display", name) may return
Responses ==
    {<<>>,
     << <<"Access", "Token", "tok1">>, <<"Connected", "Status", "Connected">>,
        <<"Instance", "Url", "url1">> >>,
     << <<"Access", "Token", "tok1">>, <<"Instance", "Url", "url1">>,
        <<"Status", "Active">> >>,
     << <<"Connected", "Status", "Connected">>, <<"Instance", "Url", "url1">> >>,
     << <<"Access", "Token", "tok1">>, <<"Status", "Expired">> >>,
     << <<"ERROR", "running", "force:org:display">> >>}

\* ------------------------------------------------------------------ Script
NOT_SUPPORTED_OBJECTS == {"Profile"}

toLowerCase(name) == IF name \in {"CSVFile", "csvfile"} THEN "csvfile" ELSE name

\* the object entries a script file is made of
ScriptEntries ==
    {Entry(<<"SELECT", "Name", "RecordTypeId", "FROM", "Account">>, Num("Insert"), FALSE, FALSE),
     Entry(<<"SELECT", "Id", "RecordTypeId", "FROM", "Contact">>, Str("Update"), FALSE, TRUE),
     Entry(<<"SELECT", "Name", "RecordTypeId", "FROM", "Opportunity">>, Num("Delete"), FALSE, FALSE),
     Entry(<<"SELECT", "Name", "RecordTypeId", "FROM", "Lead">>, Num("Readonly"), TRUE, FALSE),
     Entry(<<"SELECT", "Name", "FROM", "Contact">>, Str("Readonly"), TRUE, FALSE),
     Entry(<<"SELECT", "Name", "FROM", "Account">>, Num("Update"), TRUE, FALSE),
     Entry(<<"SELECT", "Name", "RecordTypeId", "FROM", "Profile">>, Num("Upsert"), FALSE, FALSE),
     Entry(<<"SELECT", "FROM", "Account">>, Num("Insert"), FALSE, FALSE)}

\* the endpoint found in script.orgs by its name (with the token the script
\* file carries), or new ScriptOrg() when the script names no such endpoint
ResolvedOrgs(username) ==
    {NewScriptOrg} \cup
    (IF toLowerCase(username) = "csvfile" THEN {}
     ELSE {[NewScriptOrg EXCEPT !.name = username, !.accessToken = "tok0",
                                !.instanceUrl = "url0"]})

Init ==
    /\ pc = [step |-> "start", org |-> ""]
    /\ error = NoError
    /\ input \in SeqsUpTo(ScriptEntries, MaxObjects)
    /\ objects = input
    /\ objectsMap = <<>>
    /\ sourceUsername \in {"CSVFile", "source@org"}
    /\ targetUsername \in {"csvfile", "target@org"}
    /\ sourceOrg \in ResolvedOrgs(sourceUsername)
    /\ targetOrg \in ResolvedOrgs(targetUsername)
    /\ calls = <<>>
    /\ sobj = NewScriptObject
    /\ spc = "none"
    /\ serr = ""

\* "Remove excluded objects": the filter's predicate
included(object) == ~object.excluded \/ OpEq(object.operation, "Readonly")

Media(username) == IF toLowerCase(username) = "csvfile" THEN "File" ELSE "Org"

Fail(kind, orgName) ==
    /\ pc' = [step |-> "failed", org |-> pc.org]
    /\ error' = [kind |-> kind, org |-> orgName]

\* (mutant) the endpoints are set up before the objects' length is checked
Begin_NoLengthCheck ==
    /\ pc.step = "start"
    /\ objects' = SelectSeq(objects, included)
    /\ sourceOrg' = [sourceOrg EXCEPT !.name = sourceUsername, !.isSource = TRUE,
                                      !.media = Media(sourceUsername)]
    /\ targetOrg' = [targetOrg EXCEPT !.name = targetUsername,
                                      !.media = Media(targetUsername)]
    /\ pc' = [step |-> "connect", org |-> "source"]
    /\ UNCHANGED <<error, input, objectsMap, sourceUsername, targetUsername, calls,
                   sobj, spc, serr>>

\* setupAsync up to the first endpoint's setup: "Initialize script", "Remove
\* excluded objects", "Check objects length", "Assign orgs"
Begin ==
    /\ pc.step = "start"
    /\ \E filtered \in {SelectSeq(objects, included)} :
           /\ objects' = filtered
           /\ IF Len(filtered) = 0
              THEN /\ Fail("noObjectsDefinedInPackageFile", "")
                   /\ UNCHANGED <<sourceOrg, targetOrg>>
              ELSE /\ sourceOrg' = [sourceOrg EXCEPT !.name = sourceUsername,
                                                      !.isSource = TRUE,
                                                      !.media = Media(sourceUsername)]
                   /\ targetOrg' = [targetOrg EXCEPT !.name = targetUsername,
                                                      !.media = Media(targetUsername)]
                   /\ pc' = [step |-> "connect", org |-> "source"]
                   /\ error' = error
    /\ UNCHANGED <<input, objectsMap, sourceUsername, targetUsername, calls, sobj, spc, serr>>

\* the endpoint being set up
Org == IF pc.org = "source" THEN sourceOrg ELSE targetOrg

SetOrg(org) ==
    IF pc.org = "source" THEN sourceOrg' = org /\ targetOrg' = targetOrg
    ELSE targetOrg' = org /\ sourceOrg' = sourceOrg

\* after an endpoint's setup: the target's setup, then "Setup objects"
AfterOrg ==
    IF pc.org = "source" THEN [step |-> "connect", org |-> "target"]
    ELSE [step |-> "objects", org |-> ""]

Call(op, ok) == [org |-> pc.org, op |-> op, token |-> Org.accessToken, ok |-> ok]

\* _setupConnection of a file endpoint: nothing is done
SkipFileMedia ==
    /\ pc.step = "connect"
    /\ isFileMedia(Org)
    /\ pc' = AfterOrg
    /\ UNCHANGED <<error, input, objects, objectsMap, sourceUsername, targetUsername,
                   sourceOrg, targetOrg, calls, sobj, spc, serr>>

\* _setupConnection of an endpoint that has an access token already
AlreadyConnected ==
    /\ pc.step = "connect"
    /\ ~isFileMedia(Org)
    /\ orgIsConnected(Org)
    /\ pc' = [pc EXCEPT !.step = "validate"]
    /\ UNCHANGED <<error, input, objects, objectsMap, sourceUsername, targetUsername,
                   sourceOrg, targetOrg, calls, sobj, spc, serr>>

\* _setupConnection: "Connect with SFDX"
Connect ==
    /\ pc.step = "connect"
    /\ ~isFileMedia(Org)
    /\ ~orgIsConnected(Org)
    /\ \E processResult \in Responses :
       \E orgInfo \in {parseForceOrgDisplayResult(processResult)} :
             /\ calls' = Append(calls, Call("execSfdx", TRUE))
             /\ IF orgInfo.isNull
                THEN \* orgInfo.isConnected of null
                     /\ Fail("TypeError", "")
                     /\ UNCHANGED <<sourceOrg, targetOrg>>
                ELSE IF ~orgInfoIsConnected(orgInfo.info)
                THEN /\ Fail("tryingToConnectCLIFailed", Org.name)
                     /\ UNCHANGED <<sourceOrg, targetOrg>>
                ELSE /\ SetOrg([Org EXCEPT !.accessToken = orgInfo.info.AccessToken,
                                           !.instanceUrl = orgInfo.info.InstanceUrl])
                     /\ pc' = [pc EXCEPT !.step = "validate"]
                     /\ error' = error
    /\ UNCHANGED <<input, objects, objectsMap, sourceUsername, targetUsername, sobj, spc, serr>>

\* _validateAccessTokenAsync: "Validate access token"
ValidateAccessToken ==
    /\ pc.step = "validate"
    /\ ~isFileMedia(Org)
    /\ \E ok \in BOOLEAN :
         /\ calls' = Append(calls, Call("queryAccount", ok))
         /\ IF ok THEN pc' = [pc EXCEPT !.step = "personAccount"] /\ error' = error
            ELSE Fail("accessToOrgExpired", Org.name)
    /\ UNCHANGED <<input, objects, objectsMap, sourceUsername, targetUsername,
                   sourceOrg, targetOrg, sobj, spc, serr>>

\* (mutant) a failed person account query is thrown like a failed Account query
CheckPersonAccount_Throws ==
    /\ pc.step = "personAccount"
    /\ \E ok \in BOOLEAN :
         /\ calls' = Append(calls, Call("queryIsPersonAccount", ok))
         /\ IF ok THEN /\ SetOrg([Org EXCEPT !.isPersonAccountEnabled = TRUE])
                       /\ pc' = AfterOrg
                       /\ error' = error
            ELSE /\ Fail("accessToOrgExpired", Org.name)
                 /\ UNCHANGED <<sourceOrg, targetOrg>>
    /\ UNCHANGED <<input, objects, objectsMap, sourceUsername, targetUsername,
                   sobj, spc, serr>>

\* _validateAccessTokenAsync: "Check person account availability"
CheckPersonAccount ==
    /\ pc.step = "personAccount"
    /\ \E ok \in BOOLEAN :
         /\ calls' = Append(calls, Call("queryIsPersonAccount", ok))
         /\ SetOrg([Org EXCEPT !.isPersonAccountEnabled = ok])
    /\ pc' = AfterOrg
    /\ UNCHANGED <<error, input, objects, objectsMap, sourceUsername, targetUsername,
                   sobj, spc, serr>>

\* "Setup objects": object.setup(this) in script order, up to the first throw
RECURSIVE SetupObjects(_, _, _, _)
SetupNext(objs, index, map, isPersonAccountEnabled, r) ==
    IF r.err # ""
    THEN [objects |-> [objs EXCEPT ![index] = r.obj],
          map |-> IF r.registered THEN MapSet(map, r.obj.name, r.obj) ELSE map,
          err |-> r.err]
    ELSE SetupObjects([objs EXCEPT ![index] = r.obj], index + 1,
                      MapSet(map, r.obj.name, r.obj), isPersonAccountEnabled)

SetupObjects(objs, index, map, isPersonAccountEnabled) ==
    IF index > Len(objs) THEN [objects |-> objs, map |-> map, err |-> ""]
    ELSE SetupNext(objs, index, map, isPersonAccountEnabled,
                   setup(objs[index], isPersonAccountEnabled))

\* "Remove unnecessary objects"
RemoveUnnecessaryObjects(objs) ==
    LET Supported(x) == x.name \notin NOT_SUPPORTED_OBJECTS
    IN  SelectSeq(objs, Supported)

Names(objs) == [i \in 1..Len(objs) |-> objs[i].name]

\* the RecordType object before its setup
RecordTypeObject ==
    [NewScriptObject EXCEPT !.name = "RecordType",
                            !.externalId = "DeveloperName",
                            !.isExtraObject = TRUE,
                            !.allRecords = TRUE,
                            !.query = <<"SELECT", "Id", "FROM", "RecordType">>,
                            !.operation = Num("Readonly")]

\* the RecordType query after object.setup: its filter and its order
\* (operator and logicalOperator are composeWhereClause's defaults)
RecordTypeQuery(parsedQuery, objectsWithRecordTypeFields) ==
    [parsedQuery EXCEPT
        !.where = composeWhereClause(parsedQuery.where, "SobjectType",
                                     objectsWithRecordTypeFields, "IN", "AND"),
        !.orderBy = <<"SobjectType", "ASC">>]

WithQuery(object, q) == [object EXCEPT !.parsedQuery = q, !.query = composeQuery(q)]

PushObject(objs, map, object) ==
    [objects |-> Append(objs, object), map |-> MapSet(map, object.name, object)]

\* (mutant) one RecordType object for each object that queries RecordTypeId
RECURSIVE AddRecordType_PerObject(_, _, _, _)
AddRecordType_PerObject(objs, map, object, objectsWithRecordTypeFields) ==
    IF objectsWithRecordTypeFields = <<>> THEN [objects |-> objs, map |-> map]
    ELSE LET rest == AddRecordType_PerObject(objs, map, object,
                                             Tail(objectsWithRecordTypeFields))
         IN  PushObject(rest.objects, rest.map,
                        WithQuery(object, RecordTypeQuery(object.parsedQuery,
                                                          <<Head(objectsWithRecordTypeFields)>>)))

\* "Add extra objects": the RecordType object, object being it after its setup
AddRecordType(objs, map, object, objectsWithRecordTypeFields) ==
    IF Len(objectsWithRecordTypeFields) > 0
    THEN PushObject(objs, map,
                    WithQuery(object, RecordTypeQuery(object.parsedQuery,
                                                      objectsWithRecordTypeFields)))
    ELSE [objects |-> objs, map |-> map]

AddExtraObjects(objs, map, isPersonAccountEnabled) ==
    AddRecordType(objs, map, setup(RecordTypeObject, isPersonAccountEnabled).obj,
                  Names(SelectSeq(objs, hasRecordTypeIdField)))

\* setupAsync from "Setup objects" to its end
CompileObjects ==
    /\ pc.step = "objects"
    /\ \E compiled \in {SetupObjects(objects, 1, objectsMap, sourceOrg.isPersonAccountEnabled)} :
           IF compiled.err # ""
           THEN /\ objects' = compiled.objects
                /\ objectsMap' = compiled.map
                /\ Fail(compiled.err, "")
           ELSE \E final \in {AddExtraObjects(RemoveUnnecessaryObjects(compiled.objects),
                                              compiled.map,
                                              sourceOrg.isPersonAccountEnabled)} :
                    /\ objects' = final.objects
                    /\ objectsMap' = final.map
                    /\ pc' = [step |-> "done", org |-> ""]
                    /\ error' = error
    /\ UNCHANGED <<input, sourceUsername, targetUsername, sourceOrg, targetOrg, calls,
                   sobj, spc, serr>>

Next ==
    \/ Begin
    \/ SkipFileMedia
    \/ AlreadyConnected
    \/ Connect
    \/ ValidateAccessToken
    \/ CheckPersonAccount
    \/ CompileObjects

Spec == Init /\ [][Next]_vars

\* ==================================================================== claims
NoDuplicates(s) == \A i, j \in 1..Len(s) : s[i] = s[j] => i = j

Count(s, x) == Cardinality({i \in 1..Len(s) : s[i] = x})

\* d is raw without its repetitions, each field at its first occurrence
FirstOccurrences(d, raw) ==
    /\ Range(d) = Range(raw)
    /\ NoDuplicates(d)
    /\ \A i, j \in 1..Len(d) : i < j => IndexOf(raw, d[i]) < IndexOf(raw, d[j])

\* the object entry as the script file gave it (one ScriptObject on its own)
RawEntry == input[1]

RawFields == parseQuery(RawEntry.query).query.fields

IsDelete(operation) == operation \in {Num("Delete"), Str("Delete")}

IsReadonlyOperation(operation) == operation \in {Num("Readonly"), Str("Readonly")}

\* ---- C7
IdAppended(fields, raw) ==
    IF "Id" \in Range(raw) THEN FirstOccurrences(fields, raw)
    ELSE /\ Len(fields) = Len(distinctArray(raw)) + 1
         /\ fields[Len(fields)] = "Id"
         /\ FirstOccurrences(SubSeq(fields, 1, Len(fields) - 1), raw)

\* C7: once setup has parsed the primary query, its field list holds Id exactly
\* once and no field twice; unless the operation is Delete it is the raw field
\* list without repetitions, in the raw order, with Id appended at the end only
\* when it was absent; and the recomposed query text reads back as that list.
C7_FieldListNormalized ==
    (spc \in {"done", "failed"} /\ sobj.parsedQuery.parsed) =>
        /\ Count(sobj.parsedQuery.fields, "Id") = 1
        /\ NoDuplicates(sobj.parsedQuery.fields)
        /\ (~IsDelete(RawEntry.operation) => IdAppended(sobj.parsedQuery.fields, RawFields))
        /\ parseQuery(sobj.query).ok
        /\ parseQuery(sobj.query).query.fields = sobj.parsedQuery.fields
        /\ parseQuery(sobj.query).query.sObject = sobj.name

C7_Witness ==
    /\ spc = "done"
    /\ RawEntry.query = <<"SELECT", "Name", "Name", "FROM", "Account">>
    /\ RawEntry.operation = Num("Insert")
    /\ sobj.parsedQuery.fields = <<"Name", "Id">>
    /\ sobj.query = <<"SELECT", "Name", "Id", "FROM", "Account">>

\* ---- C8
\* C8: after the setup of an entry whose operation is Delete (the enum or the
\* text) and whose queries parse, the primary query's field list is [Id],
\* deleteOldData is true, and there is a compiled delete query whose field list
\* is [Id].
C8_DeleteNarrowsToId ==
    (spc = "done" /\ IsDelete(RawEntry.operation)) =>
        /\ sobj.parsedQuery.fields = <<"Id">>
        /\ sobj.deleteOldData
        /\ sobj.parsedDeleteQuery.parsed
        /\ sobj.parsedDeleteQuery.fields = <<"Id">>
        /\ parseQuery(sobj.deleteQuery).ok
        /\ parseQuery(sobj.deleteQuery).query.fields = <<"Id">>

C8_Witness ==
    /\ spc = "done"
    /\ RawEntry.operation = Str("Delete")
    /\ ~RawEntry.deleteOldData
    /\ RawFields = <<"Name", "RecordTypeId">>
    /\ sobj.parsedQuery.fields = <<"Id">>
    /\ sobj.deleteOldData

\* ---- C9
\* C9: setup never completes with an operation that is not a member of the
\* operation enum: text that names no member is surfaced as an error.
C9_UnknownOperationSurfaced ==
    spc = "done" => sobj.operation \in {Num(m) : m \in OPERATION}

\* ---- C10
Updatable(o, name) ==
    /\ name \in DOMAIN o.sourceFieldsMap
    /\ name \in DOMAIN o.targetFieldsMap
    /\ ~isReadonly(o.sourceFieldsMap[name])
    /\ ~isReadonly(o.targetFieldsMap[name])

UpdatableFields(o) ==
    IF \/ OpEq(o.operation, "Readonly")
       \/ DOMAIN o.sourceFieldsMap = {}
       \/ DOMAIN o.targetFieldsMap = {}
    THEN <<>>
    ELSE LET Keep(name) == Updatable(o, name)
         IN  SelectSeq(o.parsedQuery.fields, Keep)

\* C10: fieldsToUpdate of a compiled object is the queried fields, in query
\* order, that both describe maps hold and neither describes as read-only; it is
\* empty when the operation is Readonly or one of the describe maps is empty.
C10_FieldsToUpdate ==
    spc = "done" => fieldsToUpdate(sobj) = UpdatableFields(sobj)

\* ---- C1
ExtraObjects == SelectSeq(objects, LAMBDA o : o.isExtraObject)

\* the names of the compiled entities whose field list holds RecordTypeId
RecordTypeUsers ==
    {objects[i].name : i \in {j \in 1..Len(objects) :
                                 /\ ~objects[j].isExtraObject
                                 /\ "RecordTypeId" \in Range(objects[j].parsedQuery.fields)}}

SobjectTypeFilters(o) ==
    {i \in 1..Len(o.parsedQuery.where) : o.parsedQuery.where[i].field = "SobjectType"}

\* C1: after a successful setupAsync, when a compiled entity that is left after
\* the unsupported objects are removed queries RecordTypeId there is exactly one
\* extra object, it is the RecordType object and its SobjectType filter holds
\* exactly the names of the entities that query RecordTypeId; when none does
\* there is no extra object.
C1_OneRecordTypePlan ==
    pc.step = "done" =>
        IF RecordTypeUsers # {}
        THEN /\ Len(ExtraObjects) = 1
             /\ ExtraObjects[1].name = "RecordType"
             /\ ExtraObjects[1].parsedQuery.sObject = "RecordType"
             /\ Cardinality(SobjectTypeFilters(ExtraObjects[1])) = 1
             /\ \A i \in SobjectTypeFilters(ExtraObjects[1]) :
                    Range(ExtraObjects[1].parsedQuery.where[i].values) = RecordTypeUsers
             /\ parseQuery(ExtraObjects[1].query).ok
             /\ parseQuery(ExtraObjects[1].query).query = ExtraObjects[1].parsedQuery
        ELSE Len(ExtraObjects) = 0

C1_Witness ==
    /\ pc.step = "done"
    /\ RecordTypeUsers = {"Account", "Contact"}
    /\ Len(objects) = 3
    /\ objects[3].isExtraObject
    /\ objects[3].parsedQuery.where[1].values = <<"Account", "Contact">>

\* ---- C2
NoObjectsFailure ==
    /\ pc.step = "failed"
    /\ error.kind = "noObjectsDefinedInPackageFile"
    /\ calls = <<>>
    /\ DOMAIN objectsMap = {}
    /\ \A i \in 1..Len(objects) : ~objects[i].parsedQuery.parsed

AllExcluded ==
    \A i \in 1..Len(input) :
        input[i].excluded /\ ~IsReadonlyOperation(input[i].operation)

\* C2: when no object entry is left by the exclusion filter (so when every
\* entry is excluded and not Readonly) setupAsync fails with the no-objects
\* error, and then no collaborator has been invoked for either endpoint and no
\* object has been compiled or put into objectsMap.
C2_NoObjectsBeforeEndpoints ==
    (pc.step # "start" /\ (SelectSeq(input, included) = <<>> \/ AllExcluded)) =>
        NoObjectsFailure

C2_Witness ==
    /\ NoObjectsFailure
    /\ Len(input) = 2
    /\ AllExcluded
    /\ sourceUsername = "source@org"
    /\ targetUsername = "target@org"

\* ---- C3
\* what the exclusion filter is to keep: an entry is dropped exactly when it is
\* excluded and its operation, the enum or the text, is not Readonly
Kept(object) == ~(object.excluded /\ ~IsReadonlyOperation(object.operation))

\* C3: the exclusion filter drops an entry exactly when it is excluded and its
\* operation (enum or text) is not Readonly, and dropping raises no error.
C3_ExclusionFilter ==
    /\ (pc.step = "connect" /\ pc.org = "source") =>
           Names(objects) = Names(SelectSeq(input, Kept)) /\ objects = SelectSeq(input, Kept)
    /\ error.kind = "noObjectsDefinedInPackageFile" => SelectSeq(input, Kept) = <<>>

\* ---- C4
\* C4: after a successful setupAsync neither objects nor objectsMap holds an
\* object of an unsupported name, and every key of objectsMap names an object
\* of the objects sequence.
C4_NoUnsupportedObject ==
    pc.step = "done" =>
        /\ \A i \in 1..Len(objects) : objects[i].name \notin NOT_SUPPORTED_OBJECTS
        /\ DOMAIN objectsMap \cap NOT_SUPPORTED_OBJECTS = {}
        /\ DOMAIN objectsMap \subseteq Range(Names(objects))

\* ---- C5
OrgOf(which) == IF which = "source" THEN sourceOrg ELSE targetOrg

\* C5: the person account query of an endpoint directly follows its successful
\* Account query; a failed Account query is the last call, and setup has failed
\* with the access-expired error naming the endpoint; a person account query
\* never fails setup, and isPersonAccountEnabled is its outcome.
C5_ProbeOrder ==
    \A i \in 1..Len(calls) :
        /\ calls[i].op = "queryIsPersonAccount" =>
               /\ i > 1
               /\ calls[i - 1].op = "queryAccount"
               /\ calls[i - 1].org = calls[i].org
               /\ calls[i - 1].ok
               /\ OrgOf(calls[i].org).isPersonAccountEnabled = calls[i].ok
               /\ (i = Len(calls) /\ pc.step = "failed") =>
                      error.kind \in {"MalformedQuery", "MalformedDeleteQuery"}
        /\ (calls[i].op = "queryAccount" /\ ~calls[i].ok) =>
               /\ i = Len(calls)
               /\ pc.step = "failed"
               /\ error = [kind |-> "accessToOrgExpired", org |-> OrgOf(calls[i].org).name]
               /\ error.org = (IF calls[i].org = "source" THEN sourceUsername
                               ELSE targetUsername)
        /\ (calls[i].op = "queryAccount" /\ calls[i].ok /\ i = Len(calls)) =>
               pc = [step |-> "personAccount", org |-> calls[i].org]

C5_Witness ==
    /\ pc.step = "done"
    /\ Len(calls) = 4
    /\ calls[1].op = "queryAccount" /\ calls[1].org = "source"
    /\ calls[2].op = "queryIsPersonAccount" /\ ~calls[2].ok
    /\ calls[4].op = "queryIsPersonAccount" /\ calls[4].ok
    /\ ~sourceOrg.isPersonAccountEnabled
    /\ targetOrg.isPersonAccountEnabled

\* ---- C6
\* C6: setup of a live endpoint that is not connected either fails with the
\* authentication error or goes on with an access token: no query is issued
\* with an empty access token and setup fails with no other error; setup of a
\* file endpoint invokes no collaborator and leaves the endpoint as it is.
C6_ConnectedOrAuthenticationError ==
    /\ \A i \in 1..Len(calls) :
           /\ calls[i].op \in {"queryAccount", "queryIsPersonAccount"} =>
                  calls[i].token \notin {"", NoValue}
           /\ ~isFileMedia(OrgOf(calls[i].org))
    /\ error.kind # "TypeError"
    /\ \A which \in {"source", "target"} :
           (pc.step \notin {"start", "failed"} /\ isFileMedia(OrgOf(which))) =>
               /\ OrgOf(which).accessToken = ""
               /\ OrgOf(which).instanceUrl = ""
               /\ ~OrgOf(which).isPersonAccountEnabled

====
